---- MODULE Spec2Model ----
(***************************************************************************)
(* Session registry and batch scheduler of ProjectFrederica.               *)
(*                                                                         *)
(*   src/src/user_session.py      UserMessage, UserSession,                *)
(*                                UserSessionManager                       *)
(*   src/src/message_processor.py MessageProcessor (_processing_loop,      *)
(*                                _process_user_messages)                  *)
(*                                                                         *)
(* Time is a discrete clock `now` (seconds).  datetime.now() reads it.     *)
(* Two specifications share the registry operators:                        *)
(*   SpecAPI  any caller invokes any public registry method at any time    *)
(*            (each call is atomic: every method body runs under           *)
(*            self.lock);                                                  *)
(*   Spec     the running program: one scheduler thread executing          *)
(*            _processing_loop, one transport thread calling add_message,  *)
(*            and the RLock they share.                                    *)
(*                                                                         *)
(* A snapshot file is named after the user and the second of the write,    *)
(* so only a write of the same second can replace it, and the program     *)
(* never reads one back: `files` keeps the snapshots of the current        *)
(* second; those of earlier seconds stay on disk unchanged for ever and    *)
(* are not carried along.                                                  *)
(***************************************************************************)
EXTENDS Integers, Sequences, FiniteSets, TLC

\* ------------------------------------------------------------------ bounds
Users == {"a", "b", "c"}
\* Config.max_users, message_batch_timeout, conversation_timeout: read from the
\* environment (defaults 10, 40 and 3600 seconds); small values with the
\* defaults' order, batch_timeout < conversation_timeout
max_users == 2
batch_timeout == 1
conversation_timeout == 2
\* the clock stops at MaxTime; at most MaxMsgs messages are accepted
MaxTime == 3
MaxMsgs == 3
\* time.sleep(5) after an exception in the loop
backoff_sleep == 5
\* SpecLoop follows the clock to MaxLoopTime: past the end of a back-off
MaxLoopTime == 7
\* SpecSend: send_messages gets at most MaxSegs segments, each one of SegTexts
MaxSegs == 3
SegTexts == {"x", "y"}
\* SpecMerge: _merge_messages gets at most MaxBatch messages, stamped 0..MaxMergeTime
MaxBatch == 3
MaxMergeTime == 2
\* SpecParse: _parse_segmentation gets a reply of at most MaxReply pieces of text
MaxReply == 4
\* SpecStart: _processing_loop threads ever started
MaxThreads == 3
\* SpecBot: the users of the legacy bot, and its max_history (20 in the source)
BotUsers == {"a", "b"}
max_history == 2

\* Optional[datetime] = None
None == -1

VARIABLES
    now,            \* datetime.now(), in seconds
    user_sessions,  \* UserSessionManager.user_sessions: dict in insertion order,
                    \* a sequence of UserSession records keyed by user_id
    files,          \* data/sessions/: the snapshots written during the current second
    accepted,       \* the user_id of every message add_message returned True for;
                    \* message ids number them in order of acceptance
    inflight,       \* per user: batches returned by get_messages_for_processing
                    \* since the last mark_processing_complete for that user
    burst,          \* per user: ids of the latest run of accepted messages whose
                    \* gaps are all smaller than batch_timeout, until an
                    \* extraction for the user returns a batch
    owed,           \* Spec, per user: ids of the batch whose processing was
                    \* reported failed and that no later extraction returned yet
    lock,           \* Spec: owner of UserSessionManager.lock, or Free
    pc,             \* Spec: position of the scheduler thread
    candidates,     \* Spec: _processing_loop's candidates not yet iterated
    cur,            \* Spec: user_id of the running _process_user_messages
    messages,       \* Spec: _process_user_messages' local `messages`
    llm,            \* Spec: (success, response_content) of _call_llm
    sent,           \* Spec: what send_messages gave _handle_llm_response
    wake,           \* Spec: end of the scheduler's time.sleep
    tpc,            \* Spec: position of the transport thread
    tuser,          \* Spec: user_id of the transport's add_message call
    tsaved,         \* Spec: FALSE when the snapshot write of that call raised
    spc,            \* Spec: where the main thread is: "idle" or "get_stats"
    stats,          \* Spec: the dict get_stats is returning to the main thread
    tret,           \* Spec: what that add_message call returned
    is_running,     \* MessageProcessor.is_running
    cleanups,       \* calls of cleanup_expired_sessions in the current iteration
                    \* of _processing_loop
    sendpc,         \* SpecSend: where a call of WeChatClient.send_messages is
    segments,       \* SpecSend: its parameter `segments`
    seg_i,          \* SpecSend: the loop's `i`
    success_count,  \* SpecSend: its local success_count
    fail_count,     \* SpecSend: its local fail_count
    attempted,      \* SpecSend: the i of every send_text_message call so far
    send_ret,       \* SpecSend: what send_messages returned
    mergepc,        \* SpecMerge: where a call of _merge_messages is
    merge_in,       \* SpecMerge: its parameter `messages`
    merged,         \* SpecMerge: merged_lines, the items that "\n".join puts together
    parsepc,        \* SpecParse: where a call of _parse_segmentation is
    parse_in,       \* SpecParse: its parameter `content`
    parse_out,      \* SpecParse: the list it returned
    polled,         \* SpecPolled: datetime.now() of the last get_batch_candidates
                    \* call of the loop, None before the first
    threads,        \* SpecStart: where each _processing_loop thread started so far
                    \* is; the last one is MessageProcessor.processing_thread
    stoppc,         \* SpecStart: where a call of MessageProcessor.stop is
    history,        \* SpecBot: per user, the roles of WeChatWorkBot's
                    \* user_sessions[user_id]['history']
    botpc,          \* SpecBot: where _process_single_message is
    botuser         \* SpecBot: its message['user_id']

mgrVars == <<user_sessions, files, accepted, inflight, burst>>
schedVars_noLock == <<pc, candidates, cur, messages, llm, sent, wake>>
schedVars == <<lock, pc, candidates, cur, messages, llm, sent, wake>>
transportVars == <<tpc, tuser, tsaved, tret>>
mainVars == <<spc, stats>>
loopVars == <<is_running, cleanups>>
sendVars == <<sendpc, segments, seg_i, success_count, fail_count, attempted, send_ret>>
mergeVars == <<mergepc, merge_in, merged>>
parseVars == <<parsepc, parse_in, parse_out>>
\* the variables of the specifications added after SpecMerge
startVars == <<threads, stoppc>>
botVars == <<history, botpc, botuser>>
auxVars == <<parseVars, polled, startVars, botVars>>
vars == <<now, user_sessions, files, accepted, inflight, burst, owed,
          lock, pc, candidates, cur, messages, llm, sent, wake, tpc, tuser, tsaved, tret,
          spc, stats, is_running, cleanups,
          sendpc, segments, seg_i, success_count, fail_count, attempted, send_ret,
          mergepc, merge_in, merged, auxVars>>

\* ------------------------------------------------------- UserMessage
UserMessage(message_id, user_id, t) ==
    [message_id |-> message_id, user_id |-> user_id, timestamp |-> t]

\* ------------------------------------------------------- UserSession
UserSession(user_id) ==
    [user_id |-> user_id,
     message_queue |-> <<>>,
     last_message_time |-> None,
     is_processing |-> FALSE,
     conversation_start_time |-> None,
     conversation_end_time |-> None]

\* UserSession.add_message that restarts the conversation at every message
SessionAddMessage_restart(s, m) ==
    [s EXCEPT !.message_queue = Append(@, m),
              !.last_message_time = m.timestamp,
              !.conversation_start_time = m.timestamp,
              !.conversation_end_time = None]

\* UserSession.add_message that sets last_message_time at the first message only
SessionAddMessage_first_time(s, m) ==
    [s EXCEPT !.message_queue = Append(@, m),
              !.last_message_time = IF @ = None THEN m.timestamp ELSE @,
              !.conversation_start_time = IF @ = None THEN m.timestamp ELSE @]

SessionAddMessage(s, m) ==
    [s EXCEPT !.message_queue = Append(@, m),
              !.last_message_time = m.timestamp,
              !.conversation_start_time = IF @ = None THEN m.timestamp ELSE @,
              !.conversation_end_time = None]

\* clear_queue that drops the oldest message only
clear_queue_head(s) ==
    [s EXCEPT !.message_queue = IF @ = <<>> THEN @ ELSE Tail(@)]

\* last_processed_time, which clear_queue also sets, is read nowhere in the
\* program and is left out of the session record.
clear_queue(s) ==
    [s EXCEPT !.message_queue = <<>>]

should_process_batch(s, t) ==
    IF s.message_queue = <<>> THEN FALSE
    ELSE IF s.is_processing THEN FALSE
    ELSE IF s.last_message_time = None THEN FALSE
    ELSE t - s.last_message_time >= batch_timeout

\* is_conversation_expired that needs more than conversation_timeout of silence
is_conversation_expired_strict(s, t) ==
    IF s.conversation_start_time = None THEN TRUE
    ELSE IF s.conversation_end_time # None THEN TRUE
    ELSE IF s.last_message_time = None
         THEN t - s.conversation_start_time > conversation_timeout
         ELSE t - s.last_message_time > conversation_timeout

is_conversation_expired(s, t) ==
    IF s.conversation_start_time = None THEN TRUE
    ELSE IF s.conversation_end_time # None THEN TRUE
    ELSE IF s.last_message_time = None
         THEN t - s.conversation_start_time >= conversation_timeout
         ELSE t - s.last_message_time >= conversation_timeout

end_conversation(s, t) == [s EXCEPT !.conversation_end_time = t]

\* ------------------------------------------- the user_sessions dict
Keys(S) == {S[i].user_id : i \in 1..Len(S)}
Has(S, u) == u \in Keys(S)
Idx(S, u) == CHOOSE i \in 1..Len(S) : S[i].user_id = u
Get(S, u) == S[Idx(S, u)]
\* d[u] = s: a new key goes last, an existing key keeps its place
Put(S, u, s) == IF Has(S, u) THEN [S EXCEPT ![Idx(S, u)] = s] ELSE Append(S, s)

\* ------------------------------------------- _save_session_to_file
\* session_{user_id}_{%Y%m%d_%H%M%S}.json: one name per user and second; open(..,'w')
\* replaces a file of the same name.  ok = FALSE: the write raised, which is
\* logged and swallowed.
FileName(s, t) == <<s.user_id, t>>
save_session_to_file(F, s, t, ok) ==
    IF ok
    THEN {f \in F : f.name # FileName(s, t)} \cup {[name |-> FileName(s, t), data |-> s]}
    ELSE F

\* ------------------------------------------- UserSessionManager
\* get_session without the max_users check
get_session_unbounded(S, user_id) ==
    IF ~Has(S, user_id)
    THEN [raised |-> FALSE, sessions |-> Append(S, UserSession(user_id))]
    ELSE [raised |-> FALSE, sessions |-> S]

\* get_session that tests max_users before it looks the user up
get_session_full_first(S, user_id) ==
    IF Len(S) >= max_users
    THEN [raised |-> TRUE, sessions |-> S]
    ELSE IF ~Has(S, user_id)
         THEN [raised |-> FALSE, sessions |-> Append(S, UserSession(user_id))]
         ELSE [raised |-> FALSE, sessions |-> S]

\* raised = TRUE: ValueError (the registry is full); the dict is left as it was
get_session(S, user_id) ==
    IF ~Has(S, user_id)
    THEN IF Len(S) >= max_users
         THEN [raised |-> TRUE, sessions |-> S]
         ELSE [raised |-> FALSE, sessions |-> Append(S, UserSession(user_id))]
    ELSE [raised |-> FALSE, sessions |-> S]

\* add_message whose expired-session branch keeps the old session object
add_message_keep(S, F, user_id, message_id, t, ok) ==
    LET g == get_session(S, user_id) IN
    IF g.raised THEN [ret |-> FALSE, sessions |-> S, files |-> F]
    ELSE LET old == Get(g.sessions, user_id)
             expired == is_conversation_expired(old, t)
             message == UserMessage(message_id, user_id, t)
         IN [ret |-> TRUE,
             sessions |-> Put(g.sessions, user_id, SessionAddMessage(old, message)),
             files |-> IF expired THEN save_session_to_file(F, old, t, ok) ELSE F]

\* The try/except turns the ValueError of get_session into return False.
add_message(S, F, user_id, message_id, t, ok) ==
    LET g == get_session(S, user_id) IN
    IF g.raised THEN [ret |-> FALSE, sessions |-> S, files |-> F]
    ELSE LET old == Get(g.sessions, user_id)
             expired == is_conversation_expired(old, t)
             session == IF expired THEN UserSession(user_id) ELSE old
             message == UserMessage(message_id, user_id, t)
         IN [ret |-> TRUE,
             sessions |-> Put(g.sessions, user_id, SessionAddMessage(session, message)),
             files |-> IF expired THEN save_session_to_file(F, old, t, ok) ELSE F]

\* Optional[List[UserMessage]]
NoneList == [some |-> FALSE, list |-> <<>>]
SomeList(q) == [some |-> TRUE, list |-> q]

\* get_messages_for_processing without the should_process_batch test
get_messages_for_processing_unchecked(S, user_id, t) ==
    IF ~Has(S, user_id) THEN [ret |-> NoneList, sessions |-> S]
    ELSE LET session == Get(S, user_id) IN
         [ret |-> SomeList(session.message_queue),
          sessions |-> Put(S, user_id, [session EXCEPT !.is_processing = TRUE])]

\* get_messages_for_processing that takes the messages out of the queue
get_messages_for_processing_taking(S, user_id, t) ==
    IF ~Has(S, user_id) THEN [ret |-> NoneList, sessions |-> S]
    ELSE LET session == Get(S, user_id) IN
         IF ~should_process_batch(session, t) THEN [ret |-> NoneList, sessions |-> S]
         ELSE [ret |-> SomeList(session.message_queue),
               sessions |-> Put(S, user_id, [session EXCEPT !.is_processing = TRUE,
                                                            !.message_queue = <<>>])]

\* get_messages_for_processing that trusts the poll: any waiting queue is a batch
get_messages_for_processing_polled(S, user_id, t) ==
    IF ~Has(S, user_id) THEN [ret |-> NoneList, sessions |-> S]
    ELSE LET session == Get(S, user_id) IN
         IF session.message_queue = <<>> \/ session.is_processing
         THEN [ret |-> NoneList, sessions |-> S]
         ELSE [ret |-> SomeList(session.message_queue),
               sessions |-> Put(S, user_id, [session EXCEPT !.is_processing = TRUE])]

get_messages_for_processing(S, user_id, t) ==
    IF ~Has(S, user_id) THEN [ret |-> NoneList, sessions |-> S]
    ELSE LET session == Get(S, user_id) IN
         IF ~should_process_batch(session, t) THEN [ret |-> NoneList, sessions |-> S]
         ELSE [ret |-> SomeList(session.message_queue),
               sessions |-> Put(S, user_id, [session EXCEPT !.is_processing = TRUE])]

\* mark_processing_complete that looks the session up with get_session
mark_processing_complete_get_session(S, user_id, success) ==
    LET g == get_session(S, user_id) IN
    IF g.raised THEN S
    ELSE LET session == [Get(g.sessions, user_id) EXCEPT !.is_processing = FALSE] IN
         Put(g.sessions, user_id, IF success THEN clear_queue(session) ELSE session)

mark_processing_complete(S, user_id, success) ==
    IF ~Has(S, user_id) THEN S
    ELSE LET session == [Get(S, user_id) EXCEPT !.is_processing = FALSE] IN
         Put(S, user_id, IF success THEN clear_queue(session) ELSE session)

\* get_batch_candidates that lists a session whose batch is being processed
get_batch_candidates_processing(S, t) ==
    LET ids == [i \in 1..Len(S) |-> S[i].user_id]
        ready(u) == LET s == Get(S, u) IN
                    /\ s.message_queue # <<>>
                    /\ s.last_message_time # None
                    /\ t - s.last_message_time >= batch_timeout
    IN SelectSeq(ids, ready)

\* the candidates list, in the dict's iteration order
get_batch_candidates(S, t) ==
    LET ids == [i \in 1..Len(S) |-> S[i].user_id]
        ready(u) == should_process_batch(Get(S, u), t)
    IN SelectSeq(ids, ready)

ExpiredUsers(S, t) ==
    {S[i].user_id : i \in {j \in 1..Len(S) : is_conversation_expired(S[j], t)}}

\* cleanup_expired_sessions that writes the snapshots and deletes no session
cleanup_expired_sessions_keep(S, F, t, failed) ==
    LET RECURSIVE SaveAll(_, _)
        SaveAll(i, G) ==
            IF i > Len(S) THEN G
            ELSE IF S[i].user_id \in ExpiredUsers(S, t)
                 THEN SaveAll(i + 1, save_session_to_file(G, end_conversation(S[i], t), t,
                                                          S[i].user_id \notin failed))
                 ELSE SaveAll(i + 1, G)
    IN [sessions |-> S, files |-> SaveAll(1, F)]

\* cleanup_expired_sessions whose scan ends at the first snapshot write that
\* raises: that session and the expired ones after it stay in the registry
cleanup_expired_sessions_abort(S, F, t, failed) ==
    LET expired_users == ExpiredUsers(S, t)
        Stopped(i) == \E j \in 1..i : S[j].user_id \in expired_users \cap failed
        RECURSIVE SaveAll(_, _)
        SaveAll(i, G) ==
            IF i > Len(S) \/ Stopped(i) THEN G
            ELSE IF S[i].user_id \in expired_users
                 THEN SaveAll(i + 1, save_session_to_file(G, end_conversation(S[i], t), t, TRUE))
                 ELSE SaveAll(i + 1, G)
        Kept == {i \in 1..Len(S) : S[i].user_id \notin expired_users \/ Stopped(i)}
    IN [sessions |-> SelectSeq([i \in 1..Len(S) |->
                                   IF Stopped(i) /\ ~Stopped(i - 1) /\ S[i].user_id \in expired_users
                                   THEN end_conversation(S[i], t) ELSE S[i]],
                               LAMBDA e : \E i \in Kept : S[i].user_id = e.user_id),
        files |-> SaveAll(1, F)]

\* failed: the users whose snapshot write raises during this scan
cleanup_expired_sessions(S, F, t, failed) ==
    LET expired_users == ExpiredUsers(S, t)
        RECURSIVE SaveAll(_, _)
        SaveAll(i, G) ==
            IF i > Len(S) THEN G
            ELSE IF S[i].user_id \in expired_users
                 THEN SaveAll(i + 1, save_session_to_file(G, end_conversation(S[i], t), t,
                                                          S[i].user_id \notin failed))
                 ELSE SaveAll(i + 1, G)
    IN [sessions |-> SelectSeq(S, LAMBDA e : e.user_id \notin expired_users),
        files |-> SaveAll(1, F)]

\* get_stats: one pass over the sessions that adds to the four counters
NoStats == [total_users |-> 0, active_users |-> 0,
            total_messages_in_queues |-> 0, users_with_pending_messages |-> 0]
\* get_stats that adds the queue size to users_with_pending_messages
get_stats_pending_by_size(S, t) ==
    LET RECURSIVE Pass(_, _)
        Pass(i, stats0) ==
            IF i > Len(S) THEN stats0
            ELSE LET queue_size == Len(S[i].message_queue)
                     stats1 == [stats0 EXCEPT !.total_messages_in_queues = @ + queue_size]
                     stats2 == IF queue_size > 0
                               THEN [stats1 EXCEPT !.users_with_pending_messages = @ + queue_size]
                               ELSE stats1
                     stats3 == IF ~is_conversation_expired(S[i], t)
                               THEN [stats2 EXCEPT !.active_users = @ + 1]
                               ELSE stats2
                 IN Pass(i + 1, stats3)
    IN Pass(1, [NoStats EXCEPT !.total_users = Len(S)])

get_stats(S, t) ==
    LET RECURSIVE Pass(_, _)
        Pass(i, stats0) ==
            IF i > Len(S) THEN stats0
            ELSE LET queue_size == Len(S[i].message_queue)
                     stats1 == [stats0 EXCEPT !.total_messages_in_queues = @ + queue_size]
                     stats2 == IF queue_size > 0
                               THEN [stats1 EXCEPT !.users_with_pending_messages = @ + 1]
                               ELSE stats1
                     stats3 == IF ~is_conversation_expired(S[i], t)
                               THEN [stats2 EXCEPT !.active_users = @ + 1]
                               ELSE stats2
                 IN Pass(i + 1, stats3)
    IN Pass(1, [NoStats EXCEPT !.total_users = Len(S)])

\* the message ids of a list of messages
Ids(q) == [i \in 1..Len(q) |-> q[i].message_id]

\* ------------------------------------------- registry calls as steps
\* Each call runs under self.lock, so it is one step on the registry's
\* variables; its datetime.now() reads fall in one second of the clock.
\* accepted, inflight and burst record the calls' results.
NextId == Len(accepted) + 1

\* User ids are opaque to the program.  The senders are named in the order of
\* their first accepted message: a, then b, then c.
Rank(u) == CASE u = "a" -> 1 [] u = "b" -> 2 [] u = "c" -> 3
Known == {accepted[i] : i \in 1..Len(accepted)}
Senders == {u \in Users : \A v \in Users : Rank(v) < Rank(u) => v \in Known}

\* The message continues the sender's burst when it arrives less than
\* batch_timeout after the sender's previous message (the last_message_time of
\* the session; a sender without session was silent for conversation_timeout).
ContinuesBurst(u) ==
    /\ Has(user_sessions, u)
    /\ Get(user_sessions, u).last_message_time # None
    /\ now - Get(user_sessions, u).last_message_time < batch_timeout

DoAddMessage(u, ok) ==
    LET r == add_message(user_sessions, files, u, NextId, now, ok) IN
    /\ u \in Senders
    /\ Len(accepted) < MaxMsgs \/ ~r.ret
    /\ user_sessions' = r.sessions
    /\ files' = r.files
    /\ accepted' = IF r.ret THEN Append(accepted, u) ELSE accepted
    /\ burst' = IF ~r.ret THEN burst
                ELSE IF ContinuesBurst(u) THEN [burst EXCEPT ![u] = Append(@, NextId)]
                ELSE [burst EXCEPT ![u] = <<NextId>>]
    /\ UNCHANGED inflight

\* the return value does not depend on whether the snapshot write succeeds
AddRet(u) == add_message(user_sessions, files, u, NextId, now, TRUE).ret

ExtractRet(u) == get_messages_for_processing(user_sessions, u, now).ret

DoExtract(u) ==
    LET r == get_messages_for_processing(user_sessions, u, now) IN
    /\ user_sessions' = r.sessions
    /\ inflight' = IF r.ret.some THEN [inflight EXCEPT ![u] = @ + 1] ELSE inflight
    /\ burst' = IF r.ret.some THEN [burst EXCEPT ![u] = <<>>] ELSE burst
    /\ UNCHANGED <<files, accepted>>

DoComplete(u, success) ==
    /\ user_sessions' = mark_processing_complete(user_sessions, u, success)
    /\ inflight' = [inflight EXCEPT ![u] = 0]
    /\ UNCHANGED <<files, accepted, burst>>

DoCleanup(failed) ==
    LET r == cleanup_expired_sessions(user_sessions, files, now, failed) IN
    /\ user_sessions' = r.sessions
    /\ files' = r.files
    /\ UNCHANGED <<accepted, inflight, burst>>

\* ------------------------------------------- initial state
Free == "free"

Init ==
    /\ now = 0
    /\ user_sessions = <<>>
    /\ files = {}
    /\ accepted = <<>>
    /\ inflight = [u \in Users |-> 0]
    /\ burst = [u \in Users |-> <<>>]
    /\ owed = [u \in Users |-> <<>>]
    /\ lock = Free
    /\ pc = "poll"
    /\ candidates = <<>>
    /\ cur = ""
    /\ messages = NoneList
    /\ llm = [success |-> FALSE, content |-> "none"]
    /\ sent = "none"
    /\ wake = 0
    /\ tpc = "idle"
    /\ tuser = ""
    /\ tsaved = TRUE
    /\ tret = FALSE
    /\ spc = "idle"
    /\ stats = NoStats
    /\ is_running = TRUE
    /\ cleanups = 0
    /\ sendpc = "idle"
    /\ segments = <<>>
    /\ seg_i = 0
    /\ success_count = 0
    /\ fail_count = 0
    /\ attempted = <<>>
    /\ send_ret = FALSE
    /\ mergepc = "idle"
    /\ merge_in = <<>>
    /\ merged = <<>>
    /\ parsepc = "idle"
    /\ parse_in = <<>>
    /\ parse_out = <<>>
    /\ polled = None
    /\ threads = <<"check">>
    /\ stoppc = "idle"
    /\ history = [u \in BotUsers |-> <<>>]
    /\ botpc = "idle"
    /\ botuser = ""

\* message ids stored in the snapshot files F
FileIds(F) == UNION {{f.data.message_queue[i].message_id :
                          i \in 1..Len(f.data.message_queue)} : f \in F}

\* One second passes.  No thread is inside a `with self.lock` block across it:
\* the blocks do no I/O besides logging and the snapshot write.
Tick ==
    /\ now < MaxTime
    /\ lock = Free
    /\ now' = now + 1
    /\ files' = {}
    /\ UNCHANGED <<user_sessions, accepted, inflight, burst, owed, schedVars, transportVars, mainVars, loopVars, sendVars, mergeVars, auxVars>>

\* ------------------------------------------- SpecAPI: any caller, any order
ApiAddMessage(u, ok) ==
    /\ DoAddMessage(u, ok)
    /\ UNCHANGED <<now, owed, schedVars, transportVars, mainVars, loopVars, sendVars, mergeVars, auxVars>>

ApiGetMessagesForProcessing(u) ==
    /\ DoExtract(u)
    /\ UNCHANGED <<now, owed, schedVars, transportVars, mainVars, loopVars, sendVars, mergeVars, auxVars>>

ApiMarkProcessingComplete(u, success) ==
    /\ DoComplete(u, success)
    /\ UNCHANGED <<now, owed, schedVars, transportVars, mainVars, loopVars, sendVars, mergeVars, auxVars>>

ApiCleanupExpiredSessions(failed) ==
    /\ DoCleanup(failed)
    /\ UNCHANGED <<now, owed, schedVars, transportVars, mainVars, loopVars, sendVars, mergeVars, auxVars>>

\* get_batch_candidates and get_stats change nothing: they are no steps here.
NextAPI ==
    \/ Tick
    \/ \E u \in Users, ok \in BOOLEAN : ApiAddMessage(u, ok)
    \/ \E u \in Users : ApiGetMessagesForProcessing(u)
    \/ \E u \in Users, success \in BOOLEAN : ApiMarkProcessingComplete(u, success)
    \/ \E failed \in SUBSET Users : ApiCleanupExpiredSessions(failed)

SpecAPI == Init /\ [][NextAPI]_vars

\* ------------------------------------------- Spec: the running program
\* A registry call of a thread is two steps: the method body, run with the lock
\* taken and still held when the step ends, then the release at the end of the
\* `with self.lock` block.  What the body saw and wrote is decided at the first
\* step; no other thread (and no Tick) can act between the two.

\* --- the transport thread: WeChatCallbackHandler._handle_message
\* add_message writes a snapshot when the session it finds (or has just
\* created: conversation_start_time is None) is conversation-expired
WritesSnapshot(u) ==
    LET g == get_session(user_sessions, u) IN
    ~g.raised /\ is_conversation_expired(Get(g.sessions, u), now)

\* ok = FALSE, the write raises, is an outcome only when there is a write
TransportAddMessage(u, ok) ==
    /\ tpc = "idle"
    /\ lock = Free
    /\ ok \/ WritesSnapshot(u)
    /\ DoAddMessage(u, ok)
    /\ lock' = "transport"
    /\ tpc' = "add_message"
    /\ tuser' = u
    /\ tsaved' = ok
    /\ tret' = AddRet(u)
    /\ UNCHANGED <<now, owed, schedVars_noLock, mainVars, loopVars, sendVars, mergeVars, auxVars>>

\* What _handle_message answers after add_message returned `success`: the
\* encrypted TextReply with empty content, which do_POST sends with status
\* 200.  `if not success` only logs.
handle_message_reply(success) == [status |-> 200, content |-> ""]

\* add_message returns; the handler logs `success` and answers the request
TransportReturn ==
    /\ tpc = "add_message"
    /\ lock = "transport"
    /\ lock' = Free
    /\ tpc' = "idle"
    /\ tuser' = ""
    /\ tsaved' = TRUE
    /\ tret' = FALSE
    /\ UNCHANGED <<now, owed, mgrVars, schedVars_noLock, mainVars, loopVars, sendVars, mergeVars, auxVars>>

\* --- the main thread: WeChatLLMServer._display_status and get_status
\* get_stats entered without taking self.lock
MainGetStatsUnlocked ==
    /\ spc = "idle"
    /\ lock' = "main"
    /\ spc' = "get_stats"
    /\ stats' = get_stats(user_sessions, now)
    /\ UNCHANGED <<now, owed, mgrVars, schedVars_noLock, transportVars, loopVars, sendVars, mergeVars, auxVars>>

\* session_stats = self.session_manager.get_stats()
MainGetStats ==
    /\ spc = "idle"
    /\ lock = Free
    /\ lock' = "main"
    /\ spc' = "get_stats"
    /\ stats' = get_stats(user_sessions, now)
    /\ UNCHANGED <<now, owed, mgrVars, schedVars_noLock, transportVars, loopVars, sendVars, mergeVars, auxVars>>

MainReturn ==
    /\ spc = "get_stats"
    /\ lock = "main"
    /\ lock' = Free
    /\ spc' = "idle"
    /\ stats' = NoStats
    /\ UNCHANGED <<now, owed, mgrVars, schedVars_noLock, transportVars, loopVars, sendVars, mergeVars, auxVars>>

\* --- the scheduler thread: MessageProcessor._processing_loop
\* candidates = self.session_manager.get_batch_candidates()
PollCall ==
    /\ pc = "poll"
    /\ lock = Free
    /\ lock' = "scheduler"
    /\ candidates' = get_batch_candidates(user_sessions, now)
    /\ pc' = "candidates"
    /\ cleanups' = 0
    /\ UNCHANGED <<now, owed, mgrVars, cur, messages, llm, sent, wake, transportVars, mainVars,
                   is_running, sendVars, mergeVars, parseVars, startVars, botVars>>

Poll == PollCall /\ UNCHANGED polled

\* `for user_id in candidates`: the next user, or on to the cleanup
ForNext ==
    IF candidates = <<>>
    THEN pc' = "cleanup" /\ cur' = "" /\ UNCHANGED candidates
    ELSE pc' = "process" /\ cur' = Head(candidates) /\ candidates' = Tail(candidates)

\* the loop with the cleanup inside `if candidates:`
PollReturnSkippingCleanup ==
    /\ pc = "candidates"
    /\ lock = "scheduler"
    /\ lock' = Free
    /\ IF candidates = <<>>
       THEN pc' = "sleep" /\ wake' = now + 1 /\ UNCHANGED <<candidates, cur>>
       ELSE ForNext /\ UNCHANGED wake
    /\ UNCHANGED <<now, owed, mgrVars, messages, llm, sent, transportVars, mainVars, loopVars, sendVars, mergeVars, auxVars>>

PollReturn ==
    /\ pc = "candidates"
    /\ lock = "scheduler"
    /\ lock' = Free
    /\ ForNext
    /\ UNCHANGED <<now, owed, mgrVars, messages, llm, sent, wake, transportVars, mainVars, loopVars, sendVars, mergeVars, auxVars>>

\* _process_user_messages: messages = get_messages_for_processing(user_id)
Extract ==
    /\ pc = "process"
    /\ lock = Free
    /\ lock' = "scheduler"
    /\ DoExtract(cur)
    /\ messages' = ExtractRet(cur)
    /\ owed' = IF ExtractRet(cur).some THEN [owed EXCEPT ![cur] = <<>>] ELSE owed
    /\ pc' = "extracted"
    /\ UNCHANGED <<now, candidates, cur, llm, sent, wake, transportVars, mainVars, loopVars, sendVars, mergeVars, auxVars>>

\* the release that leaves the lock with the scheduler
ExtractReturnHolding ==
    /\ pc = "extracted"
    /\ lock = "scheduler"
    /\ IF ~messages.some
       THEN ForNext /\ lock' = Free
       ELSE pc' = "call_llm" /\ UNCHANGED <<lock, candidates, cur>>
    /\ messages' = IF messages.some THEN messages ELSE NoneList
    /\ UNCHANGED <<now, owed, mgrVars, llm, sent, wake, transportVars, mainVars, loopVars, sendVars, mergeVars, auxVars>>

\* `if not messages: return`; else _merge_messages and into _call_llm
ExtractReturn ==
    /\ pc = "extracted"
    /\ lock = "scheduler"
    /\ lock' = Free
    /\ IF ~messages.some
       THEN ForNext
       ELSE pc' = "call_llm" /\ UNCHANGED <<candidates, cur>>
    /\ messages' = IF messages.some THEN messages ELSE NoneList
    /\ UNCHANGED <<now, owed, mgrVars, llm, sent, wake, transportVars, mainVars, loopVars, sendVars, mergeVars, auxVars>>

\* what _call_llm can return: (False, None) on any exception of the API call,
\* else (True, final_content) with final_content None or "" ("none"), only
\* whitespace and <SEGMENTATION> markers ("blank"), the reply "[SILENT]" that
\* the prompts of llm.py ask the model for ("silent"), or other text
LlmResults ==
    {[success |-> FALSE, content |-> "none"],
     [success |-> TRUE, content |-> "none"],
     [success |-> TRUE, content |-> "blank"],
     [success |-> TRUE, content |-> "silent"],
     [success |-> TRUE, content |-> "text"]}

NoLlm == [success |-> FALSE, content |-> "none"]

\* _parse_segmentation(content) is not empty: some segment is left after the
\* split and strip.  "[SILENT]" is such a segment: message_processor.py has no
\* case for it.
HasSegments(content) == content \in {"silent", "text"}

\* _call_llm returns.  `if success and response_content`: _handle_llm_response
\* parses the segments and, if there are any, enters send_messages.
CallLlmReturn(r) ==
    /\ pc = "call_llm"
    /\ llm' = r
    /\ pc' = IF r.success /\ HasSegments(r.content) THEN "send_messages" ELSE "complete"
    /\ UNCHANGED <<now, owed, mgrVars, lock, candidates, cur, messages, sent, wake, transportVars, mainVars, loopVars, sendVars, mergeVars, auxVars>>

\* send_messages returns True ("ok"), or returns False or raises ("failed");
\* _handle_llm_response logs either and returns nothing
SendMessagesReturn(success) ==
    /\ pc = "send_messages"
    /\ pc' = "complete"
    /\ sent' = IF success THEN "ok" ELSE "failed"
    /\ UNCHANGED <<now, owed, mgrVars, lock, candidates, cur, messages, llm, wake, transportVars, mainVars, loopVars, sendVars, mergeVars, auxVars>>

\* mark_processing_complete(user_id, success=(success and response_content))
CompleteSuccess == llm.success /\ llm.content # "none"

\* the failure branch that logs and does not call mark_processing_complete
CompleteOnSuccessOnly ==
    /\ pc = "complete"
    /\ lock = Free
    /\ lock' = "scheduler"
    /\ IF CompleteSuccess
       THEN DoComplete(cur, TRUE) /\ owed' = [owed EXCEPT ![cur] = <<>>]
       ELSE UNCHANGED <<mgrVars, owed>>
    /\ pc' = "completed"
    /\ UNCHANGED <<now, candidates, cur, messages, llm, sent, wake, transportVars, mainVars, loopVars, sendVars, mergeVars, auxVars>>

Complete ==
    /\ pc = "complete"
    /\ lock = Free
    /\ lock' = "scheduler"
    /\ DoComplete(cur, CompleteSuccess)
    /\ owed' = [owed EXCEPT ![cur] = IF CompleteSuccess THEN <<>> ELSE Ids(messages.list)]
    /\ pc' = "completed"
    /\ UNCHANGED <<now, candidates, cur, messages, llm, sent, wake, transportVars, mainVars, loopVars, sendVars, mergeVars, auxVars>>

\* the return after which a failed batch ends the `for` loop of the poll
CompleteReturnLeavingLoop ==
    /\ pc = "completed"
    /\ lock = "scheduler"
    /\ lock' = Free
    /\ IF CompleteSuccess /\ sent # "failed"
       THEN ForNext
       ELSE pc' = "cleanup" /\ cur' = "" /\ candidates' = <<>>
    /\ messages' = NoneList
    /\ llm' = NoLlm
    /\ sent' = "none"
    /\ UNCHANGED <<now, owed, mgrVars, wake, transportVars, mainVars, loopVars, sendVars, mergeVars, auxVars>>

CompleteReturn ==
    /\ pc = "completed"
    /\ lock = "scheduler"
    /\ lock' = Free
    /\ ForNext
    /\ messages' = NoneList
    /\ llm' = NoLlm
    /\ sent' = "none"
    /\ UNCHANGED <<now, owed, mgrVars, wake, transportVars, mainVars, loopVars, sendVars, mergeVars, auxVars>>

\* self.session_manager.cleanup_expired_sessions()
Cleanup(failed) ==
    /\ pc = "cleanup"
    /\ lock = Free
    /\ lock' = "scheduler"
    /\ DoCleanup(failed)
    /\ pc' = "cleaned"
    /\ cleanups' = cleanups + 1
    /\ UNCHANGED <<now, owed, candidates, cur, messages, llm, sent, wake, transportVars, mainVars,
                   is_running, sendVars, mergeVars, auxVars>>

\* time.sleep(1)
CleanupReturn ==
    /\ pc = "cleaned"
    /\ lock = "scheduler"
    /\ lock' = Free
    /\ pc' = "sleep"
    /\ wake' = now + 1
    /\ UNCHANGED <<now, owed, mgrVars, candidates, cur, messages, llm, sent, transportVars, mainVars, loopVars, sendVars, mergeVars, auxVars>>

\* the sleep is over; its deadline is not read again
Wake ==
    /\ pc = "sleep"
    /\ now >= wake
    /\ pc' = IF is_running THEN "poll" ELSE "stopped"
    /\ wake' = 0
    /\ UNCHANGED <<now, owed, mgrVars, lock, candidates, cur, messages, llm, sent, transportVars, mainVars, loopVars, sendVars, mergeVars, auxVars>>

Next ==
    \/ Tick
    \/ \E u \in Users, ok \in BOOLEAN : TransportAddMessage(u, ok)
    \/ TransportReturn
    \/ MainGetStats
    \/ MainReturn
    \/ Poll
    \/ PollReturn
    \/ Extract
    \/ ExtractReturn
    \/ \E r \in LlmResults : CallLlmReturn(r)
    \/ \E success \in BOOLEAN : SendMessagesReturn(success)
    \/ Complete
    \/ CompleteReturn
    \/ \E failed \in SUBSET Users : Cleanup(failed)
    \/ CleanupReturn
    \/ Wake

Spec == Init /\ [][Next]_vars

\* ------------------------------------------- SpecPolled: Spec with the poll's time
\* The same threads, the time of each get_batch_candidates call kept in
\* `polled`: a session whose last_message_time is not before it got a message
\* after the poll.
PollStamped == PollCall /\ polled' = now

NextPolled ==
    \/ Tick
    \/ \E u \in Users, ok \in BOOLEAN : TransportAddMessage(u, ok)
    \/ TransportReturn
    \/ MainGetStats
    \/ MainReturn
    \/ PollStamped
    \/ PollReturn
    \/ Extract
    \/ ExtractReturn
    \/ \E r \in LlmResults : CallLlmReturn(r)
    \/ \E success \in BOOLEAN : SendMessagesReturn(success)
    \/ Complete
    \/ CompleteReturn
    \/ \E failed \in SUBSET Users : Cleanup(failed)
    \/ CleanupReturn
    \/ Wake

SpecPolled == Init /\ [][NextPolled]_vars

\* ------------------------------------------- SpecLoop: the loop and its errors
\* The scheduler loop alone, with a registry that stays empty: an exception of
\* a candidate's pipeline is caught in _process_user_messages and does not
\* reach the loop, so what reaches `except Exception` of _processing_loop is
\* raised by get_batch_candidates, cleanup_expired_sessions or the logging
\* around them.
TickLoop ==
    /\ now < MaxLoopTime
    /\ lock = Free
    /\ now' = now + 1
    /\ files' = {}
    /\ UNCHANGED <<user_sessions, accepted, inflight, burst, owed, schedVars, transportVars,
                   mainVars, loopVars, sendVars, mergeVars, auxVars>>

\* an exception that ends the thread: no `except` in the loop
LoopRaiseUncaught ==
    /\ pc \in {"poll", "cleanup"}
    /\ lock = Free
    /\ now + backoff_sleep <= MaxLoopTime
    /\ pc' = "stopped"
    /\ wake' = 0
    /\ candidates' = <<>>
    /\ cur' = ""
    /\ UNCHANGED <<now, owed, mgrVars, lock, messages, llm, sent, transportVars, mainVars, loopVars, sendVars, mergeVars, auxVars>>

\* get_batch_candidates (pc = "poll") or cleanup_expired_sessions (pc =
\* "cleanup") raises; the `with self.lock` block it may be in is left, the
\* handler logs and sleeps 5 seconds
LoopRaise ==
    /\ pc \in {"poll", "cleanup"}
    /\ lock = Free
    /\ now + backoff_sleep <= MaxLoopTime
    /\ pc' = "backoff"
    /\ wake' = now + backoff_sleep
    /\ candidates' = <<>>
    /\ cur' = ""
    /\ UNCHANGED <<now, owed, mgrVars, lock, messages, llm, sent, transportVars, mainVars, loopVars, sendVars, mergeVars, auxVars>>

\* time.sleep(5) is over: back to `while self.is_running`
WakeBackoff ==
    /\ pc = "backoff"
    /\ now >= wake
    /\ pc' = IF is_running THEN "poll" ELSE "stopped"
    /\ wake' = 0
    /\ UNCHANGED <<now, owed, mgrVars, lock, candidates, cur, messages, llm, sent, transportVars,
                   mainVars, loopVars, sendVars, mergeVars, auxVars>>

\* MessageProcessor.stop: self.is_running = False
Stop ==
    /\ is_running
    /\ is_running' = FALSE
    /\ UNCHANGED <<now, owed, mgrVars, schedVars, transportVars, mainVars, cleanups, sendVars, mergeVars, auxVars>>

NextLoop ==
    \/ TickLoop
    \/ Poll
    \/ PollReturn
    \/ Cleanup({})
    \/ CleanupReturn
    \/ Wake
    \/ LoopRaise
    \/ WakeBackoff
    \/ Stop

SpecLoop == Init /\ [][NextLoop]_vars

\* the clock runs and the scheduler thread is scheduled
SpecLoopFair ==
    /\ SpecLoop
    /\ WF_vars(TickLoop)
    /\ WF_vars(Poll)
    /\ WF_vars(PollReturn)
    /\ WF_vars(Cleanup({}))
    /\ WF_vars(CleanupReturn)
    /\ WF_vars(Wake)
    /\ WF_vars(WakeBackoff)

\* ------------------------------------------- SpecSend: WeChatClient.send_messages
\* One call of send_messages with any list of segments; each send_text_message
\* call returns True or False (it catches its own exceptions).
SegLists == UNION {[1..n -> SegTexts] : n \in 0..MaxSegs}

restVars == <<now, owed, mgrVars, schedVars, transportVars, mainVars, loopVars, mergeVars, auxVars>>

\* `if not segments: return True`, else the counters start at 0
SendStart(segs) ==
    /\ sendpc = "idle"
    /\ segments' = segs
    /\ IF segs = <<>>
       THEN sendpc' = "returned" /\ send_ret' = TRUE /\ seg_i' = 0
       ELSE sendpc' = "loop" /\ send_ret' = FALSE /\ seg_i' = 1
    /\ success_count' = 0
    /\ fail_count' = 0
    /\ attempted' = <<>>
    /\ UNCHANGED restVars

\* the pass that leaves the loop at the first segment that fails
SendTextMessageStopOnFailure(success) ==
    /\ sendpc = "loop"
    /\ seg_i <= Len(segments)
    /\ attempted' = Append(attempted, seg_i)
    /\ success_count' = IF success THEN success_count + 1 ELSE success_count
    /\ fail_count' = IF success THEN fail_count ELSE fail_count + 1
    /\ seg_i' = IF success THEN seg_i + 1 ELSE Len(segments) + 1
    /\ UNCHANGED <<sendpc, segments, send_ret, restVars>>

\* one pass of `for i, segment in enumerate(segments, 1)`:
\* success = self.send_text_message(user_id, segment)
SendTextMessage(success) ==
    /\ sendpc = "loop"
    /\ seg_i <= Len(segments)
    /\ attempted' = Append(attempted, seg_i)
    /\ success_count' = IF success THEN success_count + 1 ELSE success_count
    /\ fail_count' = IF success THEN fail_count ELSE fail_count + 1
    /\ seg_i' = seg_i + 1
    /\ UNCHANGED <<sendpc, segments, send_ret, restVars>>

\* `if fail_count == 0: return True` / `else: return fail_count == 0`
SendReturn ==
    /\ sendpc = "loop"
    /\ seg_i > Len(segments)
    /\ send_ret' = IF fail_count = 0 THEN TRUE ELSE fail_count = 0
    /\ sendpc' = "returned"
    /\ UNCHANGED <<segments, seg_i, success_count, fail_count, attempted, restVars>>

NextSend ==
    \/ \E segs \in SegLists : SendStart(segs)
    \/ \E success \in BOOLEAN : SendTextMessage(success)
    \/ SendReturn

SpecSend == Init /\ [][NextSend]_vars

\* ------------------------------------------- SpecMerge: _merge_messages
\* One call of _merge_messages with any batch.  A message is its timestamp and
\* its content; a content may be the text of the marker itself.
Marker == "<SEGMENTATION>"
MergeContents == {"hi", Marker}
MergeMessage == [timestamp : 0..MaxMergeTime, content : MergeContents]
\* batches in arrival order
MergeBatches ==
    {b \in UNION {[1..n -> MergeMessage] : n \in 0..MaxBatch} :
        \A k \in 1..(Len(b) - 1) : b[k].timestamp <= b[k + 1].timestamp}

\* message.timestamp.strftime("%H:%M:%S"): the time of day, the date dropped
TimeStr(t) == <<(t \div 3600) % 24, (t \div 60) % 60, t % 60>>

\* An item of merged_lines is a string: its prefix "[HH:MM:SS] ", none for the
\* marker, and the text after it.
\* f"[{time_str}] {message.content}"
MergedLine(m) == [prefix |-> TimeStr(m.timestamp), text |-> m.content]
\* merged_lines.append("<SEGMENTATION>")
MarkerLine == [prefix |-> <<>>, text |-> Marker]

\* _merge_messages that puts the marker after every message
merge_messages_trailing(msgs) ==
    LET RECURSIVE Loop(_, _)
        Loop(k, merged_lines) ==
            IF k > Len(msgs) THEN merged_lines
            ELSE Loop(k + 1, Append(Append(merged_lines, MergedLine(msgs[k])), MarkerLine))
    IN Loop(1, <<>>)

\* merged_lines after `for i, message in enumerate(messages, 1)`
merge_messages(msgs) ==
    LET RECURSIVE Loop(_, _)
        Loop(k, merged_lines) ==
            IF k > Len(msgs) THEN merged_lines
            ELSE LET with_line == Append(merged_lines, MergedLine(msgs[k]))
                 IN Loop(k + 1, IF k < Len(msgs) THEN Append(with_line, MarkerLine) ELSE with_line)
    IN Loop(1, <<>>)

MergeCall(msgs) ==
    /\ mergepc = "idle"
    /\ merge_in' = msgs
    /\ mergepc' = "merging"
    /\ UNCHANGED <<merged, now, owed, mgrVars, schedVars, transportVars, mainVars, loopVars, sendVars, auxVars>>

MergeReturn ==
    /\ mergepc = "merging"
    /\ merged' = merge_messages(merge_in)
    /\ mergepc' = "merged"
    /\ UNCHANGED <<merge_in, now, owed, mgrVars, schedVars, transportVars, mainVars, loopVars, sendVars, auxVars>>

NextMerge ==
    \/ \E msgs \in MergeBatches : MergeCall(msgs)
    \/ MergeReturn

SpecMerge == Init /\ [][NextMerge]_vars

\* ------------------------------------------- SpecParse: _parse_segmentation
\* One call of _parse_segmentation with any reply.  A reply is a string of
\* markers, blanks and other characters.
Blank == " "
ParseChars == {Marker, Blank, "t"}
Replies == UNION {[1..n -> ParseChars] : n \in 0..MaxReply}

\* content.split("<SEGMENTATION>")
Split(content) ==
    LET RECURSIVE From(_, _, _)
        From(k, pieces, piece) ==
            IF k > Len(content) THEN Append(pieces, piece)
            ELSE IF content[k] = Marker THEN From(k + 1, Append(pieces, piece), <<>>)
            ELSE From(k + 1, pieces, Append(piece, content[k]))
    IN From(1, <<>>, <<>>)

\* segment.strip()
RECURSIVE LStrip(_)
LStrip(s) == IF s # <<>> /\ Head(s) = Blank THEN LStrip(Tail(s)) ELSE s
RECURSIVE RStrip(_)
RStrip(s) == IF s # <<>> /\ s[Len(s)] = Blank THEN RStrip(SubSeq(s, 1, Len(s) - 1)) ELSE s
Strip(s) == RStrip(LStrip(s))

\* _parse_segmentation that keeps the segments that are empty after the strip
parse_segmentation_keep_empty(content) ==
    IF content = <<>> THEN <<>>
    ELSE LET segs == Split(content) IN [k \in 1..Len(segs) |-> Strip(segs[k])]

parse_segmentation(content) ==
    IF content = <<>> THEN <<>>
    ELSE LET segs == Split(content)
             RECURSIVE Clean(_, _)
             Clean(k, cleaned_segments) ==
                 IF k > Len(segs) THEN cleaned_segments
                 ELSE LET cleaned == Strip(segs[k])
                      IN Clean(k + 1, IF cleaned # <<>> THEN Append(cleaned_segments, cleaned)
                                      ELSE cleaned_segments)
         IN Clean(1, <<>>)

ParseCall(content) ==
    /\ parsepc = "idle"
    /\ parse_in' = content
    /\ parsepc' = "parsing"
    /\ UNCHANGED <<parse_out, now, owed, mgrVars, schedVars, transportVars, mainVars, loopVars,
                   sendVars, mergeVars, polled, startVars, botVars>>

ParseReturn ==
    /\ parsepc = "parsing"
    /\ parse_out' = parse_segmentation(parse_in)
    /\ parsepc' = "parsed"
    /\ UNCHANGED <<parse_in, now, owed, mgrVars, schedVars, transportVars, mainVars, loopVars,
                   sendVars, mergeVars, polled, startVars, botVars>>

NextParse ==
    \/ \E content \in Replies : ParseCall(content)
    \/ ParseReturn

SpecParse == Init /\ [][NextParse]_vars

\* ------------------------------------------- SpecStart: start() and stop()
\* MessageProcessor.start and stop called one after the other by one thread,
\* and the _processing_loop threads they start.  A loop thread is at the test
\* of `while self.is_running` ("check"), in get_batch_candidates ("poll"), in
\* a candidate's pipeline ("pipeline"), in time.sleep ("sleep"), or has left
\* the loop ("exited").  The state after construction and the first start()
\* has one thread at the test.
startRest == <<now, owed, mgrVars, schedVars, transportVars, mainVars, cleanups, sendVars,
               mergeVars, parseVars, polled, botVars>>

\* start(): returns when is_running, else sets it and starts a new thread
StartCall ==
    /\ stoppc = "idle"
    /\ is_running \/ Len(threads) < MaxThreads
    /\ threads' = IF is_running THEN threads ELSE Append(threads, "check")
    /\ is_running' = TRUE
    /\ UNCHANGED <<stoppc, startRest>>

\* stop(): is_running = False, then processing_thread.join(timeout=5)
StopCall ==
    /\ stoppc = "idle"
    /\ is_running' = FALSE
    /\ stoppc' = IF threads # <<>> THEN "join" ELSE "idle"
    /\ UNCHANGED <<threads, startRest>>

\* join returns: the thread has ended, or the 5 seconds passed while it is in
\* a pipeline call (the calls of a poll, and time.sleep(1), end sooner)
JoinReturn ==
    /\ stoppc = "join"
    /\ threads[Len(threads)] \in {"exited", "pipeline"}
    /\ stoppc' = "idle"
    /\ UNCHANGED <<threads, is_running, startRest>>

\* `while self.is_running:`
LoopCheck(i) ==
    /\ threads[i] = "check"
    /\ threads' = [threads EXCEPT ![i] = IF is_running THEN "poll" ELSE "exited"]
    /\ UNCHANGED <<is_running, stoppc, startRest>>

\* get_batch_candidates returned: into the first candidate's pipeline, or,
\* after the cleanup, into the sleep
LoopPoll(i) ==
    /\ threads[i] = "poll"
    /\ \E next \in {"pipeline", "sleep"} : threads' = [threads EXCEPT ![i] = next]
    /\ UNCHANGED <<is_running, stoppc, startRest>>

\* the pipelines of the candidates and the cleanup are done
LoopPipelineReturn(i) ==
    /\ threads[i] = "pipeline"
    /\ threads' = [threads EXCEPT ![i] = "sleep"]
    /\ UNCHANGED <<is_running, stoppc, startRest>>

\* time.sleep(1) ends
LoopSleepReturn(i) ==
    /\ threads[i] = "sleep"
    /\ threads' = [threads EXCEPT ![i] = "check"]
    /\ UNCHANGED <<is_running, stoppc, startRest>>

NextStart ==
    \/ StartCall
    \/ StopCall
    \/ JoinReturn
    \/ \E i \in 1..Len(threads) : LoopCheck(i)
    \/ \E i \in 1..Len(threads) : LoopPoll(i)
    \/ \E i \in 1..Len(threads) : LoopPipelineReturn(i)
    \/ \E i \in 1..Len(threads) : LoopSleepReturn(i)

SpecStart == Init /\ [][NextStart]_vars

\* ------------------------------------------- SpecBot: the legacy bot's history
\* WeChatWorkBot._process_single_message, called by the one thread of
\* _process_messages.  A history entry is modelled by its role.
botRest == <<now, owed, mgrVars, schedVars, transportVars, mainVars, loopVars, sendVars,
             mergeVars, parseVars, polled, startVars>>

\* session['history'][-self.max_history * 2:] when the list is longer
LimitHistory(h) ==
    IF Len(h) > max_history * 2
    THEN SubSeq(h, Len(h) - max_history * 2 + 1, Len(h))
    ELSE h

BotReplies == {"reply", "silent", "failure"}

\* the session is created if absent, the user's entry appended and the history
\* limited; then self.llm.generate_response is called
BotReceive(u) ==
    /\ botpc = "idle"
    /\ history' = [history EXCEPT ![u] = LimitHistory(Append(@, "user"))]
    /\ botpc' = "generate"
    /\ botuser' = u
    /\ UNCHANGED botRest

\* the entry a reply appends, without limiting the history again
AfterReply(h) == Append(h, "assistant")

\* the history after generate_response returned r
AfterResponse(h, r) ==
    CASE r = "reply" -> AfterReply(h)
      [] r = "silent" -> IF h # <<>> /\ h[Len(h)] = "user" THEN SubSeq(h, 1, Len(h) - 1) ELSE h
      [] r = "failure" -> h

BotRespond(r) ==
    /\ botpc = "generate"
    /\ history' = [history EXCEPT ![botuser] = AfterResponse(@, r)]
    /\ botpc' = "idle"
    /\ botuser' = ""
    /\ UNCHANGED botRest

NextBot ==
    \/ \E u \in BotUsers : BotReceive(u)
    \/ \E r \in BotReplies : BotRespond(r)

SpecBot == Init /\ [][NextBot]_vars

\* ------------------------------------------- properties
Range(q) == {q[i] : i \in 1..Len(q)}
Pos(q, x) == CHOOSE i \in 1..Len(q) : q[i] = x
\* the elements of p are in q, in the order they have in p
InOrderIn(p, q) ==
    /\ Range(p) \subseteq Range(q)
    /\ \A i, j \in 1..Len(p) : i < j => Pos(q, p[i]) < Pos(q, p[j])
\* ids of the messages queued for u
QueueIds(S, u) == IF Has(S, u) THEN Range(Ids(Get(S, u).message_queue)) ELSE {}

\* the steps at which a thread's registry call runs
AddMessageStep == tpc = "idle" /\ tpc' = "add_message"
ExtractStep == pc = "process" /\ pc' = "extracted"
CompleteStep == pc = "complete" /\ pc' = "completed"
CleanupStep == pc = "cleanup" /\ pc' = "cleaned"

\* C1 (SpecAPI): between an extraction that returns a batch for a user and the
\* next mark_processing_complete for that user, no other extraction for that
\* user returns a batch: at most one returned batch is outstanding per user.
C1_NoDoubleExtract == \A u \in Users : inflight[u] <= 1

\* C2 (Spec): mark_processing_complete(u, True) removes from u's queue only
\* messages of the batch the preceding extraction returned; a message enqueued
\* between the extraction and the completion stays queued.
C2_ClearsOnlyExtractedBatch ==
    [][(CompleteStep /\ CompleteSuccess) =>
         (QueueIds(user_sessions, cur) \ QueueIds(user_sessions', cur))
             \subseteq Range(Ids(messages.list))]_vars

\* C3 (Spec): after a batch B was extracted and completed with success = False,
\* the next extraction for that user that returns a batch returns all of B, in
\* B's order.
C3_FailedBatchExtractedAgain ==
    [][(ExtractStep /\ messages'.some) => InOrderIn(owed[cur], Ids(messages'.list))]_vars

\* C4 (Spec): the registry never holds more than max_users sessions.
C4_RegistryBounded == Len(user_sessions) <= max_users

C4_Witness ==
    /\ Len(user_sessions) = max_users
    /\ tpc = "add_message"
    /\ ~tret

\* C5 (Spec): add_message for a user without session when the registry holds
\* max_users sessions returns False and changes nothing: no session, no queued
\* message, no snapshot; and returning from the call enqueues nothing either.
C5_FullRegistryRejects ==
    /\ [][(AddMessageStep /\ ~Has(user_sessions, tuser') /\ Len(user_sessions) >= max_users)
            => (~tret' /\ UNCHANGED mgrVars)]_vars
    /\ [][(tpc = "add_message" /\ tpc' = "idle") => UNCHANGED mgrVars]_vars

C5_Witness ==
    /\ tpc = "add_message"
    /\ ~tret
    /\ ~Has(user_sessions, tuser)
    /\ Len(user_sessions) = max_users
    /\ Len(accepted) = max_users

\* C6 (Spec): for a burst of messages of one user with gaps below batch_timeout,
\* while nothing is processing, should_process_batch is false until batch_timeout
\* after the last arrival and true from then on; the extraction returns the
\* whole burst in arrival order; after the successful completion the queue is
\* empty and should_process_batch is false.
C6_BatchingDelay ==
    /\ [](\A i \in 1..Len(user_sessions) :
            LET s == user_sessions[i] IN
            (burst[s.user_id] # <<>> /\ ~s.is_processing) =>
                (should_process_batch(s, now) <=> now - s.last_message_time >= batch_timeout))
    /\ [][(ExtractStep /\ messages'.some) => InOrderIn(burst[cur], Ids(messages'.list))]_vars
    /\ [][(CompleteStep /\ CompleteSuccess /\ Has(user_sessions', cur)) =>
            /\ Get(user_sessions', cur).message_queue = <<>>
            /\ ~should_process_batch(Get(user_sessions', cur), now)]_vars

\* add_message of message m finds u's session expired and not yet reaped, and
\* returns True leaving a fresh session that holds m alone
ExpiredSessionAdd(u) ==
    /\ AddMessageStep
    /\ tuser' = u
    /\ Has(user_sessions, u)
    /\ is_conversation_expired(Get(user_sessions, u), now)
FreshSessionWith(u) ==
    /\ tret'
    /\ Has(user_sessions', u)
    /\ Get(user_sessions', u).is_processing = FALSE
    /\ Get(user_sessions', u).conversation_start_time = now
    /\ Get(user_sessions', u).conversation_end_time = None
    /\ Get(user_sessions', u).message_queue = <<UserMessage(NextId, u, now)>>
\* every message of the old queue is in the new queue or in a snapshot
OldQueueKept(u) ==
    QueueIds(user_sessions, u) \subseteq (QueueIds(user_sessions', u) \cup FileIds(files'))

\* C7 as stated (Spec): add_message on an expired, unreaped session succeeds,
\* the caller sees only a fresh session (is_processing false,
\* conversation_start_time the timestamp of m, queue [m]), and every message of
\* the old queue is in the replacement's queue or in the persisted snapshot.
C7_ExpiredResetNoLoss ==
    [][\A u \in Users : ExpiredSessionAdd(u) => (FreshSessionWith(u) /\ OldQueueKept(u))]_vars

\* C7 amended (Spec): as above, the old queue being kept in the snapshot when
\* the snapshot write succeeds; the snapshot then is the old session as it was.
C7_ExpiredResetNoLossIfSaved ==
    [][\A u \in Users : ExpiredSessionAdd(u) =>
         /\ FreshSessionWith(u)
         /\ tsaved' => /\ OldQueueKept(u)
                       /\ [name |-> <<u, now>>, data |-> Get(user_sessions, u)] \in files']_vars

C7_Witness ==
    /\ tpc = "add_message"
    /\ tret
    /\ tsaved
    /\ Get(user_sessions, tuser).conversation_start_time = now
    /\ \E f \in files : /\ f.name = <<tuser, now>>
                        /\ f.data.message_queue # <<>>
                        /\ f.data.is_processing

\* C8 (Spec): mark_processing_complete(u, True) leaves u's queue empty and
\* is_processing false, and a second such call right after it changes nothing.
C8_CompleteTwice ==
    [][(CompleteStep /\ CompleteSuccess) =>
         /\ Has(user_sessions', cur) =>
                /\ Get(user_sessions', cur).message_queue = <<>>
                /\ ~Get(user_sessions', cur).is_processing
         /\ mark_processing_complete(user_sessions', cur, TRUE) = user_sessions']_vars

C8_Witness ==
    /\ pc = "completed"
    /\ CompleteSuccess
    /\ Len(messages.list) >= 2
    /\ Has(user_sessions, cur)
    /\ Get(user_sessions, cur).message_queue = <<>>

\* C9 (Spec): with max_users sessions of which cleanup_expired_sessions finds
\* exactly one expired, the cleanup leaves max_users - 1 sessions; the next
\* add_message of a user without session succeeds, and the one after it of
\* another user without session returns False.
C9_CleanupFreesOneSlot ==
    [][(CleanupStep /\ Len(user_sessions) = max_users
                    /\ Cardinality(ExpiredUsers(user_sessions, now)) = 1) =>
         /\ Len(user_sessions') = max_users - 1
         /\ \A u1, u2 \in Users \ Keys(user_sessions') : u1 # u2 =>
              LET r1 == add_message(user_sessions', files', u1, NextId, now, TRUE)
                  r2 == add_message(r1.sessions, r1.files, u2, NextId + 1, now, TRUE)
              IN /\ r1.ret
                 /\ Len(r1.sessions) = max_users
                 /\ ~r2.ret
                 /\ r2.sessions = r1.sessions]_vars

\* a reaped user is turned away after another user took the freed slot
C9_Witness ==
    /\ tpc = "add_message"
    /\ ~tret
    /\ tuser \in Known
    /\ ~Has(user_sessions, tuser)
    /\ Len(user_sessions) = max_users
    /\ Cardinality(Known) = max_users + 1

\* C10 (Spec): the scheduler does not hold the registry lock while it is in
\* _call_llm or send_messages: the lock is free then unless the transport or
\* the main thread is inside a registry call of its own.
C10_LockNotHeldAcrossCalls ==
    pc \in {"call_llm", "send_messages"} =>
        /\ lock # "scheduler"
        /\ (tpc = "idle" /\ spc = "idle") => lock = Free

\* add_message for the user being processed returns True during the LLM call
C10_Witness ==
    /\ pc = "call_llm"
    /\ tpc = "add_message"
    /\ lock = "transport"
    /\ tuser = cur
    /\ tret

\* _call_llm returns to _process_user_messages
CallLlmStep == pc = "call_llm" /\ pc' # "call_llm"
\* replies with nothing to deliver: None or "", blank, or the silent sentinel
NothingToDeliver == {"none", "blank", "silent"}

\* C11 (Spec): when _call_llm succeeds with the silent sentinel or with no
\* deliverable content, send_messages is not entered and the scheduler calls
\* mark_processing_complete(u, True).
C11_SilentReplyIsSuccess ==
    /\ [][(CallLlmStep /\ llm'.success /\ llm'.content \in NothingToDeliver)
            => pc' # "send_messages"]_vars
    /\ [][(CompleteStep /\ llm.success /\ llm.content \in NothingToDeliver)
            => user_sessions' = mark_processing_complete(user_sessions, cur, TRUE)]_vars

\* the model call failed, or the delivery failed
ProcessingError == ~llm.success \/ sent = "failed"

\* C12 (Spec): a processing error of a user's batch (model call failed,
\* delivery failed) ends in mark_processing_complete(u, False): the batch stays
\* in the queue for the next poll.
C12_ErrorKeepsBatch ==
    [][(CompleteStep /\ ProcessingError)
         => user_sessions' = mark_processing_complete(user_sessions, cur, FALSE)]_vars

\* the scheduler is between the extraction for cur and the end of its pipeline
PipelinePcs == {"call_llm", "send_messages", "complete", "completed"}
InPipeline == pc \in PipelinePcs
NoDuplicates(q) == \A i, j \in 1..Len(q) : q[i] = q[j] => i = j
Ready(u) == Has(user_sessions, u) /\ should_process_batch(Get(user_sessions, u), now)

\* C13 (Spec): in one iteration of the loop every candidate is taken once, in
\* the order of the candidates list; a candidate whose session is ready at the
\* extraction enters the pipeline once, with the queue of that moment as its
\* batch, and one whose session is not ready does not enter it.
C13_HandedOncePerPoll ==
    /\ [](/\ NoDuplicates(candidates)
          /\ pc \in {"process", "extracted"} \cup PipelinePcs => cur \notin Range(candidates)
          /\ InPipeline => messages.some)
    /\ [][/\ (pc # "process" /\ pc' = "process") =>
                /\ candidates # <<>>
                /\ cur' = Head(candidates)
                /\ candidates' = Tail(candidates)
          /\ (pc # "cleanup" /\ pc' = "cleanup") => candidates = <<>>
          /\ ExtractStep =>
                /\ messages'.some <=> Ready(cur)
                /\ messages'.some => messages'.list = Get(user_sessions, cur).message_queue
          /\ (pc = "extracted" /\ pc' # "extracted") =>
                /\ pc' = "call_llm" <=> messages.some
                /\ pc' = "call_llm" => (messages' = messages /\ cur' = cur)
          /\ (pc # "call_llm" /\ pc' = "call_llm") => pc = "extracted"]_vars

\* the first of two candidates of one poll is in the pipeline
C13_Witness ==
    /\ pc = "call_llm"
    /\ messages.some
    /\ candidates # <<>>

\* the pcs at which the scheduler is inside a registry method
SchedulerInCall == pc \in {"candidates", "extracted", "completed", "cleaned"}

\* the lock is held by exactly the thread that is inside a registry method
LockHeldByCaller ==
    /\ lock = "transport" <=> tpc = "add_message"
    /\ lock = "main" <=> spc = "get_stats"
    /\ lock = "scheduler" <=> SchedulerInCall
    /\ lock \in {Free, "transport", "main", "scheduler"}

\* the step is one whole registry call, applied to the registry as it is and
\* giving the caller the value the method returns for it
OneCall ==
    \/ /\ lock' = "transport"
       /\ \E ok \in BOOLEAN :
            LET r == add_message(user_sessions, files, tuser', NextId, now, ok) IN
            user_sessions' = r.sessions /\ files' = r.files /\ tret' = r.ret
    \/ /\ lock' = "main"
       /\ stats' = get_stats(user_sessions, now)
       /\ UNCHANGED <<user_sessions, files>>
    \/ /\ lock' = "scheduler" /\ pc' = "candidates"
       /\ candidates' = get_batch_candidates(user_sessions, now)
       /\ UNCHANGED <<user_sessions, files>>
    \/ /\ lock' = "scheduler" /\ pc' = "extracted"
       /\ LET r == get_messages_for_processing(user_sessions, cur, now) IN
          user_sessions' = r.sessions /\ messages' = r.ret
       /\ UNCHANGED files
    \/ /\ lock' = "scheduler" /\ pc' = "completed"
       /\ \E success \in BOOLEAN :
            user_sessions' = mark_processing_complete(user_sessions, cur, success)
       /\ UNCHANGED files
    \/ /\ lock' = "scheduler" /\ pc' = "cleaned"
       /\ \E failed \in SUBSET Users :
            LET r == cleanup_expired_sessions(user_sessions, files, now, failed) IN
            user_sessions' = r.sessions /\ files' = r.files

\* C14 (Spec): at most one thread is inside a registry method, holding the
\* lock; a step that takes the lock is one whole call on the registry as the
\* previous calls left it, and no other step changes the registry: the
\* calls of the transport, the main thread and the scheduler take effect in
\* one sequential order.
C14_Linearizable ==
    /\ []LockHeldByCaller
    /\ [][/\ (lock = Free /\ lock' # Free) => OneCall
          /\ (lock # Free) => (lock' \in {lock, Free} /\ UNCHANGED <<user_sessions, files>>)
          /\ (lock = Free /\ lock' = Free) => UNCHANGED user_sessions]_vars

\* the transport is inside add_message while the scheduler is between the
\* extraction and the completion of a batch
C14_Witness ==
    /\ lock = "transport"
    /\ tret
    /\ pc = "complete"
    /\ Len(user_sessions) = max_users

\* a call mark_processing_complete(u, ..) for a user with a batch in flight:
\* the only step that takes inflight[u] back to 0
CompleteCall(u) == inflight[u] > 0 /\ inflight'[u] = 0

\* C15 (SpecAPI): mark_processing_complete(u, success) for a user without
\* session, reaped while its batch was in flight, changes no session, no
\* registry entry and no file; so does the call for any user without session
\* in any state the registry reaches.
C15_CompleteWithoutSession ==
    /\ [][\A u \in Users : (CompleteCall(u) /\ ~Has(user_sessions, u))
              => UNCHANGED <<user_sessions, files, accepted>>]_vars
    /\ [](\A u \in Users \ Keys(user_sessions) : \A success \in BOOLEAN :
              mark_processing_complete(user_sessions, u, success) = user_sessions)

\* a batch of a is in flight and a's session has been reaped
C15_Witness ==
    /\ inflight["a"] = 1
    /\ ~Has(user_sessions, "a")
    /\ user_sessions # <<>>

\* the messages queued in the registry, each with the place of its session
QueuedAt(S) == UNION {{<<i, j>> : j \in 1..Len(S[i].message_queue)} : i \in 1..Len(S)}
Pending(S) == {i \in 1..Len(S) : S[i].message_queue # <<>>}
Active(S, t) == {i \in 1..Len(S) : ~is_conversation_expired(S[i], t)}

\* C16 (Spec): get_stats changes no session, no registry entry and no file,
\* and returns total_users = number of sessions, total_messages_in_queues =
\* number of queued messages, users_with_pending_messages = number of sessions
\* with a non-empty queue, active_users = number of sessions that are not
\* conversation-expired; the last two are at most total_users.
C16_StatsSnapshot ==
    /\ [][(spc = "idle" /\ spc' = "get_stats") => UNCHANGED mgrVars]_vars
    /\ [](spc = "get_stats" =>
            /\ stats.total_users = Len(user_sessions)
            /\ stats.total_messages_in_queues = Cardinality(QueuedAt(user_sessions))
            /\ stats.users_with_pending_messages = Cardinality(Pending(user_sessions))
            /\ stats.active_users = Cardinality(Active(user_sessions, now))
            /\ stats.users_with_pending_messages <= stats.total_users
            /\ stats.active_users <= stats.total_users)

\* statistics of two sessions, one expired, with three queued messages
C16_Witness ==
    /\ spc = "get_stats"
    /\ stats.total_users = 2
    /\ stats.active_users = 1
    /\ stats.total_messages_in_queues = 3
    /\ stats.users_with_pending_messages = 2

\* the users whose session has a non-empty queue, is not being processed and
\* has been quiet for batch_timeout
ReadyUsers ==
    {u \in Keys(user_sessions) :
        LET s == Get(user_sessions, u) IN
        /\ Len(s.message_queue) > 0
        /\ ~s.is_processing
        /\ now - s.last_message_time >= batch_timeout}

\* C17 (Spec): get_batch_candidates returns exactly the ids of the sessions
\* with a non-empty queue, is_processing false and now - last_message_time >=
\* batch_timeout, each once, and changes no state.
C17_CandidatesExact ==
    /\ [][(pc = "poll" /\ pc' = "candidates") => UNCHANGED mgrVars]_vars
    /\ [](pc = "candidates" =>
            /\ Range(candidates) = ReadyUsers
            /\ Len(candidates) = Cardinality(ReadyUsers))
    /\ [](Range(get_batch_candidates(user_sessions, now)) = ReadyUsers)

\* a poll that lists one of two sessions
C17_Witness ==
    /\ pc = "candidates"
    /\ Len(user_sessions) = 2
    /\ Len(candidates) = 1
    /\ \E u \in Keys(user_sessions) : Get(user_sessions, u).message_queue # <<>>
                                      /\ u \notin Range(candidates)

\* the scheduler holds a batch between the extraction and its completion
HoldsBatch == messages.some /\ pc \in {"extracted"} \cup PipelinePcs

\* C18 (Spec): when get_messages_for_processing(u) returns a batch, the batch
\* is the queue of u at that moment, the queue is left as it was, is_processing
\* becomes true, and the batch does not change afterwards: a message enqueued
\* later is not in it.
C18_BatchIsSnapshot ==
    /\ [][(ExtractStep /\ messages'.some) =>
            /\ Has(user_sessions, cur)
            /\ messages'.list = Get(user_sessions, cur).message_queue
            /\ Get(user_sessions', cur).message_queue = Get(user_sessions, cur).message_queue
            /\ ~Get(user_sessions, cur).is_processing
            /\ Get(user_sessions', cur).is_processing]_vars
    /\ [][(HoldsBatch /\ HoldsBatch') => messages' = messages]_vars

\* a message was enqueued behind a batch that the scheduler holds
C18_Witness ==
    /\ HoldsBatch
    /\ Has(user_sessions, cur)
    /\ Get(user_sessions, cur).is_processing
    /\ Len(Get(user_sessions, cur).message_queue) > Len(messages.list)
    /\ \A i \in 1..Len(messages.list) :
           Get(user_sessions, cur).message_queue[i] = messages.list[i]

\* add_message(u, .) is entered while the session of u is being processed
AddWhileProcessing(u) ==
    /\ AddMessageStep
    /\ tuser' = u
    /\ Has(user_sessions, u)
    /\ Get(user_sessions, u).is_processing

\* C19 (Spec): add_message(u, m) for a user whose session has is_processing
\* true returns True, appends m to the tail of that session's queue and leaves
\* is_processing true.
C19_EnqueueWhileProcessing ==
    [][\A u \in Users : AddWhileProcessing(u) =>
          /\ tret'
          /\ Get(user_sessions', u).message_queue =
                 Append(Get(user_sessions, u).message_queue, UserMessage(NextId, u, now))
          /\ Get(user_sessions', u).is_processing]_vars

\* add_message(u, .) finds a session of u that it keeps
SameSession(u) == Has(user_sessions, u) /\ ~is_conversation_expired(Get(user_sessions, u), now)

\* C20 (Spec): whenever add_message(u, m) returns True, m is the last element
\* of the queue of u's session in the registry, last_message_time is m's
\* timestamp, conversation_end_time is unset and conversation_start_time is
\* set; an enqueue into the same session appends behind the messages already
\* queued and leaves conversation_start_time as it was.
C20_EnqueueEffect ==
    [][\A u \in Users : (AddMessageStep /\ tuser' = u /\ tret') =>
          LET m == UserMessage(NextId, u, now)
              s == Get(user_sessions', u)
          IN /\ Has(user_sessions', u)
             /\ s.message_queue # <<>>
             /\ s.message_queue[Len(s.message_queue)] = m
             /\ s.last_message_time = m.timestamp
             /\ s.conversation_end_time = None
             /\ s.conversation_start_time # None
             /\ SameSession(u) =>
                  /\ s.message_queue = Append(Get(user_sessions, u).message_queue, m)
                  /\ s.conversation_start_time = Get(user_sessions, u).conversation_start_time]_vars

\* a second message was enqueued into a session later than its first
C20_Witness ==
    /\ tpc = "add_message"
    /\ tret
    /\ Has(user_sessions, tuser)
    /\ Len(Get(user_sessions, tuser).message_queue) >= 2
    /\ Get(user_sessions, tuser).conversation_start_time # None
    /\ Get(user_sessions, tuser).conversation_start_time
           < Get(user_sessions, tuser).last_message_time

\* the session is conversation-expired at time t, in the words of the claim
ExpiredAt(s, t) ==
    \/ s.conversation_start_time = None
    \/ s.conversation_end_time # None
    \/ t - (IF s.last_message_time # None THEN s.last_message_time
            ELSE s.conversation_start_time) >= conversation_timeout

\* C21 (Spec): cleanup_expired_sessions removes exactly the sessions that are
\* conversation-expired at the time of the scan, writes each removed session,
\* marked ended at that time, to its snapshot (unless the write raises), and
\* leaves every other session unchanged, in the registry and in its place.
C21_CleanupExact ==
    [][\A failed \in SUBSET Users : Cleanup(failed) =>
          /\ Keys(user_sessions') =
                 {u \in Keys(user_sessions) : ~ExpiredAt(Get(user_sessions, u), now)}
          /\ user_sessions' = SelectSeq(user_sessions, LAMBDA s : ~ExpiredAt(s, now))
          /\ \A u \in Keys(user_sessions) \ Keys(user_sessions') : u \notin failed =>
                 [name |-> <<u, now>>,
                  data |-> [Get(user_sessions, u) EXCEPT !.conversation_end_time = now]]
                     \in files'
          /\ \A f \in files' \ files : f.name[1] \in Keys(user_sessions) \ Keys(user_sessions')]_vars

\* a scan that removed one session, whose ended snapshot is on file, and kept
\* another
C21_Witness ==
    /\ pc = "cleaned"
    /\ Len(user_sessions) = 1
    /\ \E f \in files : /\ f.name[1] \notin Keys(user_sessions)
                        /\ f.data.conversation_end_time = now
                        /\ f.data.message_queue # <<>>

\* C22 (Spec): a snapshot write that raises blocks nothing.  In
\* cleanup_expired_sessions every expired session is removed whichever writes
\* raise, and the expired sessions whose write does not raise are on file; in
\* add_message the call returns True and the registry holds what it holds
\* when the write succeeds.
C22_SaveFailureSwallowed ==
    /\ [][\A failed \in SUBSET Users : Cleanup(failed) =>
            /\ Keys(user_sessions') = Keys(user_sessions) \ ExpiredUsers(user_sessions, now)
            /\ \A u \in ExpiredUsers(user_sessions, now) \ failed :
                   \E f \in files' : f.name = <<u, now>> /\ f.data.conversation_end_time = now]_vars
    /\ [][\A u \in Users : TransportAddMessage(u, FALSE) =>
            /\ tret'
            /\ Has(user_sessions', u)
            /\ Get(user_sessions', u).message_queue = <<UserMessage(NextId, u, now)>>
            /\ ~Get(user_sessions', u).is_processing
            /\ user_sessions' = add_message(user_sessions, files, u, NextId, now, TRUE).sessions
            /\ files' = files]_vars

\* Two sessions that got their last message at time 0 expire together at
\* conversation_timeout; the one scan of that second removed both, and one of
\* the two snapshot writes raised.
C22_Witness ==
    /\ pc = "cleaned"
    /\ now = conversation_timeout
    /\ user_sessions = <<>>
    /\ Cardinality(Known) = 2
    /\ Cardinality(files) = 1
    /\ \A f \in files : f.data.conversation_end_time = now /\ f.data.last_message_time = 0

\* the pipeline for cur failed: the model call raised or returned nothing, or
\* the delivery failed
PipelineFailed == ~CompleteSuccess \/ sent = "failed"

\* a step of the scheduler thread
SchedulerStep == pc' # pc

\* C23 (Spec): the pipeline of one candidate, failed or not, changes no other
\* user's session and not the candidates that remain; after a failed pipeline
\* the loop goes on with the next candidate of the poll, and to the cleanup
\* only when none remains.
C23_FailureIsolated ==
    /\ [][(InPipeline /\ SchedulerStep) =>
            /\ Keys(user_sessions') = Keys(user_sessions)
            /\ \A u \in Keys(user_sessions) \ {cur} :
                   Get(user_sessions', u) = Get(user_sessions, u)]_vars
    /\ [][(InPipeline /\ InPipeline') => (candidates' = candidates /\ cur' = cur)]_vars
    /\ [][(pc = "completed" /\ SchedulerStep /\ PipelineFailed) =>
            IF candidates # <<>>
            THEN pc' = "process" /\ cur' = Head(candidates) /\ candidates' = Tail(candidates)
            ELSE pc' = "cleanup"]_vars

\* The first poll that can have candidates is the one at time batch_timeout:
\* in it the batch of a failed and is owed again, and the batch of b is in the
\* pipeline.
C23_Witness ==
    /\ now = batch_timeout
    /\ pc = "call_llm"
    /\ cur = "b"
    /\ owed["a"] # <<>>
    /\ Has(user_sessions, "a")
    /\ ~Get(user_sessions, "a").is_processing
    /\ Get(user_sessions, "a").message_queue # <<>>

\* ------------------------------------------- SpecFair: the program scheduled
\* The scheduler thread keeps running: a call of the model or of the delivery
\* that has been entered returns or raises, and a `with self.lock` block is
\* left once entered.  A thread that waits for the lock gets it in the end,
\* although other threads take it again and again.
SpecFair ==
    /\ Spec
    /\ WF_vars(TransportReturn)
    /\ WF_vars(MainReturn)
    /\ WF_vars(ExtractReturn)
    /\ WF_vars(\E r \in LlmResults : CallLlmReturn(r))
    /\ WF_vars(\E success \in BOOLEAN : SendMessagesReturn(success))
    /\ SF_vars(Complete)
    /\ WF_vars(CompleteReturn)

\* C24 (SpecFair): every batch that get_messages_for_processing returns to the
\* scheduler is followed by a call of mark_processing_complete for that user,
\* by one call and no more: no batch is outstanding when a batch is extracted,
\* one is when mark_processing_complete is called, and a session in the
\* registry does not keep is_processing true forever.
C24_ExtractionCompleted ==
    /\ [][(ExtractStep /\ messages'.some) => \A u \in Users : inflight[u] = 0]_vars
    /\ [][CompleteStep => (messages.some /\ inflight[cur] = 1 /\ inflight'[cur] = 0)]_vars
    /\ [][(InPipeline /\ ~InPipeline') => pc = "completed"]_vars
    /\ \A u \in Users : (pc = "call_llm" /\ cur = u) ~> (pc = "completed" /\ cur = u)
    /\ \A u \in Users : (Has(user_sessions, u) /\ Get(user_sessions, u).is_processing)
                            ~> ~(Has(user_sessions, u) /\ Get(user_sessions, u).is_processing)

\* the completion of a batch whose delivery failed
C24_Witness ==
    /\ pc = "completed"
    /\ messages.some
    /\ sent = "failed"
    /\ inflight[cur] = 0
    /\ Has(user_sessions, cur)
    /\ ~Get(user_sessions, cur).is_processing

\* C25 (SpecLoopFair): an exception raised inside an iteration of
\* _processing_loop is caught: the loop sleeps backoff_sleep, longer than the
\* sleep of a normal iteration, then tests is_running and starts another
\* iteration if it is true; the loop ends only when is_running is false.
C25_LoopSurvivesErrors ==
    /\ [][(pc # "stopped" /\ pc' = "stopped") => ~is_running]_vars
    /\ [][(pc # "backoff" /\ pc' = "backoff") =>
            (wake' = now + backoff_sleep /\ lock' = Free)]_vars
    /\ [][(pc = "sleep" /\ pc' # "sleep") => wake < now + backoff_sleep]_vars
    /\ [][(pc = "backoff" /\ pc' # "backoff") =>
            (now >= wake /\ pc' = IF is_running THEN "poll" ELSE "stopped")]_vars
    /\ (pc = "backoff") ~> (pc = "poll" \/ ~is_running)
    /\ [](pc = "stopped" => ~is_running)

\* a back-off has ended and the loop, still running, is about to start over
C25_Witness ==
    /\ pc = "backoff"
    /\ is_running
    /\ now = wake
    /\ lock = Free

OneBatchInFlight == Cardinality({u \in Users : inflight[u] > 0}) <= 1

\* C27 (Spec): while the pipeline invocation of a user is in flight, the ready
\* batch of another user can be extracted: a step that extracts it is possible.
C27_ParallelAcrossUsers ==
    \A u \in Users :
        (InPipeline /\ lock = Free /\ u # cur /\ Ready(u))
            => ENABLED (Next /\ inflight'[u] = inflight[u] + 1)

\* C28 (SpecSend): send_messages returns False only when no segment was sent:
\* with at least one segment sent and another one failed it returns True.
C28_PartialDeliveryIsSuccess ==
    (sendpc = "returned" /\ success_count > 0 /\ fail_count > 0) => send_ret

\* C29 (SpecSend): send_messages attempts the segments in list order, each
\* once: what it has attempted so far is the first segments of the list, in
\* their order, every attempt counted as sent or failed, and when it returns
\* it has attempted all of them, whichever failed.
C29_SegmentsInOrder ==
    /\ Len(attempted) <= Len(segments)
    /\ \A k \in 1..Len(attempted) : attempted[k] = k
    /\ success_count + fail_count = Len(attempted)
    /\ sendpc = "loop" => seg_i = Len(attempted) + 1
    /\ sendpc = "returned" => Len(attempted) = Len(segments)

\* every segment of a list of several failed, and every one was attempted
C29_Witness ==
    /\ sendpc = "returned"
    /\ Len(segments) >= 2
    /\ fail_count = Len(segments)
    /\ Len(attempted) = Len(segments)
    /\ ~send_ret

\* C30 (SpecMerge): _merge_messages of N >= 1 messages yields 2N - 1 items:
\* the N messages, each prefixed by its time of day, in arrival order, with
\* the marker between each two consecutive ones and none after the last: N - 1
\* markers.
C30_MergeShape ==
    (mergepc = "merged" /\ Len(merge_in) >= 1) =>
        LET N == Len(merge_in) IN
        /\ Len(merged) = 2 * N - 1
        /\ \A k \in 1..N : merged[2 * k - 1] = MergedLine(merge_in[k])
        /\ \A k \in 1..(N - 1) : merged[2 * k] = MarkerLine
        /\ merged[Len(merged)] # MarkerLine
        /\ Cardinality({k \in 1..Len(merged) : merged[k] = MarkerLine}) = N - 1

\* a merged batch of three messages, the last of which has the marker's text
\* as its content
C30_Witness ==
    /\ mergepc = "merged"
    /\ Len(merge_in) = 3
    /\ merge_in[3].content = Marker
    /\ merge_in[1].timestamp < merge_in[3].timestamp
    /\ Len(merged) = 5

\* a character of a reply that is neither the marker nor a blank
IsText(c) == c # Marker /\ c # Blank

\* The stretches i..j of the reply that begin and end with such a character,
\* hold no marker, and have only blanks between them and the markers (or the
\* ends of the reply) around them: the pieces between markers, trimmed.
TrimmedPieces(content) ==
    LET n == Len(content)
        NoMarker(a, b) == \A m \in a..b : content[m] # Marker
    IN {iv \in (1..n) \X (1..n) :
          /\ iv[1] <= iv[2]
          /\ IsText(content[iv[1]])
          /\ IsText(content[iv[2]])
          /\ NoMarker(iv[1], iv[2])
          /\ \A k \in 1..(iv[1] - 1) : NoMarker(k, iv[1]) => content[k] = Blank
          /\ \A k \in (iv[2] + 1)..n : NoMarker(iv[2], k) => content[k] = Blank}

\* C31 (SpecParse): _parse_segmentation returns the pieces of the reply
\* between markers that are not empty after trimming, trimmed and in their
\* order; no returned segment is empty or all blanks, and a reply that is
\* empty or made of markers and blanks only gives no segment.
C31_ParseSegments ==
    parsepc = "parsed" =>
        LET pieces == TrimmedPieces(parse_in) IN
        /\ Len(parse_out) = Cardinality(pieces)
        /\ \A iv \in pieces :
               parse_out[Cardinality({w \in pieces : w[1] < iv[1]}) + 1]
                   = SubSeq(parse_in, iv[1], iv[2])
        /\ \A r \in 1..Len(parse_out) : \E k \in 1..Len(parse_out[r]) : IsText(parse_out[r][k])
        /\ (\A k \in 1..Len(parse_in) : ~IsText(parse_in[k])) => parse_out = <<>>

\* a reply whose two segments stand between markers and blanks
C31_Witness ==
    /\ parsepc = "parsed"
    /\ parse_in = <<Blank, "t", Marker, "t">>
    /\ parse_out = <<<<"t">>, <<"t">>>>

\* the transport thread leaves add_message and answers the request
TransportReturnStep == tpc = "add_message" /\ tpc' = "idle"

\* C32 (Spec): when add_message returned False because the registry is full,
\* the handler's answer is not the acknowledgement it gives for an accepted
\* message.
C32_FullRegistrySignalled ==
    [][(TransportReturnStep /\ ~tret /\ Len(user_sessions) >= max_users
                            /\ ~Has(user_sessions, tuser))
         => handle_message_reply(tret) # handle_message_reply(TRUE)]_vars

\* Queued messages of u that no batch has held: burst[u] is emptied by every
\* extraction that returns a batch for u, so its ids were accepted after the
\* last one.
NeverExtracted(u) == Range(burst[u]) \cap QueueIds(user_sessions, u)
\* u's session object stays in the registry
SessionStays(u) ==
    /\ Has(user_sessions', u)
    /\ Get(user_sessions', u).conversation_start_time
           = Get(user_sessions, u).conversation_start_time
    /\ Get(user_sessions', u).is_processing

\* C33 (Spec): a step of cleanup_expired_sessions or of add_message removes no
\* never-extracted message from the registry and discards no session whose
\* is_processing is true.
C33_MessageConservation ==
    [][(CleanupStep \/ AddMessageStep) =>
         \A u \in Users :
             /\ NeverExtracted(u) \subseteq QueueIds(user_sessions', u)
             /\ (Has(user_sessions, u) /\ Get(user_sessions, u).is_processing)
                    => SessionStays(u)]_vars

\* C34 (Spec): u's session has is_processing = true exactly when a batch
\* extracted for u has not been completed yet.
C34_ProcessingIffInFlight ==
    \A u \in Users :
        (Has(user_sessions, u) /\ Get(user_sessions, u).is_processing) <=> inflight[u] > 0

\* u's session got a message after the last get_batch_candidates call: a
\* candidate's last_message_time was at least batch_timeout before the poll
NewSincePoll(u) ==
    /\ polled # None
    /\ Has(user_sessions, u)
    /\ Get(user_sessions, u).last_message_time # None
    /\ Get(user_sessions, u).last_message_time >= polled
\* get_messages_for_processing(cur) returns None and changes nothing
ExtractsNothing ==
    /\ ~messages'.some
    /\ user_sessions' = user_sessions
    /\ ~Get(user_sessions', cur).is_processing
    /\ inflight' = inflight
\* _process_user_messages returns to the loop, which goes on to another
\* candidate or to the cleanup
SkipsPipeline ==
    /\ pc' \in {"process", "cleanup"}
    /\ cur' # cur
    /\ cur \notin Range(candidates')
    /\ inflight' = inflight

\* C35 as stated (SpecPolled): when a message for u arrived between the poll
\* that returned u and get_messages_for_processing(u), the extraction returns
\* None, is_processing stays false and the loop goes on without pipeline or
\* mark_processing_complete for u.
C35_RecheckedAtExtraction ==
    [][/\ (ExtractStep /\ NewSincePoll(cur)) => ExtractsNothing
       /\ (pc = "extracted" /\ pc' # "extracted" /\ NewSincePoll(cur)) => SkipsPipeline]_vars

\* C35 amended (SpecPolled): in that case the extraction returns None, with the
\* consequences above, as long as less than batch_timeout has passed since the
\* new message, and returns the batch, the new message included, once
\* batch_timeout has passed since it.
C35_RecheckedUnlessTimeout ==
    [][/\ (ExtractStep /\ NewSincePoll(cur)) =>
             LET session == Get(user_sessions, cur) IN
             IF now - session.last_message_time < batch_timeout
             THEN ExtractsNothing
             ELSE /\ messages'.some
                  /\ messages'.list = session.message_queue
                  /\ messages'.list[Len(messages'.list)].timestamp = session.last_message_time
       /\ (pc = "extracted" /\ pc' # "extracted" /\ NewSincePoll(cur) /\ ~messages.some)
             => SkipsPipeline]_vars

\* the extraction returned None for a candidate whose queue got a second
\* message after the poll
C35_Witness ==
    /\ pc = "extracted"
    /\ ~messages.some
    /\ NewSincePoll(cur)
    /\ Len(Get(user_sessions, cur).message_queue) >= 2
    /\ ~Get(user_sessions, cur).is_processing

\* the _processing_loop threads that have not left the loop
LiveLoops == {i \in 1..Len(threads) : threads[i] # "exited"}

\* C36 (SpecStart): at most one scheduler loop runs at any time, whatever the
\* sequence of start() and stop() calls.
C36_OneSchedulerLoop == Cardinality(LiveLoops) <= 1

\* C39 (SpecBot): a user's history never holds more than 2 * max_history
\* entries after a call of _process_single_message.
C39_HistoryBounded ==
    botpc = "idle" => \A u \in BotUsers : Len(history[u]) <= 2 * max_history

\* C37 (Spec): add_message for a user who has a session returns True whatever
\* the number of sessions, the registry keeps the same keys in the same number,
\* and the message is the last of the user's queue, also when the session was
\* expired and is replaced.
C37_KnownUserAccepted ==
    [][\A u \in Users :
         (AddMessageStep /\ tuser' = u /\ Has(user_sessions, u)) =>
             /\ tret'
             /\ Len(user_sessions') = Len(user_sessions)
             /\ Keys(user_sessions') = Keys(user_sessions)
             /\ LET q == Get(user_sessions', u).message_queue
                IN q # <<>> /\ q[Len(q)] = UserMessage(NextId, u, now)]_vars

\* a full registry took a message for a user whose expired session, saved with
\* its queue, was replaced
C37_Witness ==
    /\ tpc = "add_message"
    /\ tret
    /\ Len(user_sessions) = max_users
    /\ Len(Get(user_sessions, tuser).message_queue) = 1
    /\ \E f \in files : /\ f.name = <<tuser, now>>
                        /\ f.data.message_queue # <<>>

\* C38 (Spec): every session of the registry has conversation_end_time unset;
\* one with a non-empty queue has conversation_start_time set and
\* last_message_time equal to the timestamp of its last queued message.
C38_SessionShape ==
    \A i \in 1..Len(user_sessions) :
        LET s == user_sessions[i] IN
        /\ s.conversation_end_time = None
        /\ s.message_queue # <<>> =>
              /\ s.conversation_start_time # None
              /\ s.last_message_time = s.message_queue[Len(s.message_queue)].timestamp

\* a session with two messages of different seconds next to one whose queue
\* was cleared
C38_Witness ==
    /\ \E i \in 1..Len(user_sessions) :
           LET q == user_sessions[i].message_queue IN
           Len(q) >= 2 /\ q[1].timestamp < q[Len(q)].timestamp
    /\ \E i \in 1..Len(user_sessions) :
           /\ user_sessions[i].message_queue = <<>>
           /\ user_sessions[i].last_message_time # None

====
